---- MODULE Spec2Model ----
(***************************************************************************)
(* Model of pranjal_assignment.py: the lexicon loaders, the cleaner, the   *)
(* three scorers and the analyze_data loop.                                *)
(*                                                                         *)
(* A text is a sequence of characters, a character a one-element string    *)
(* (or the name of a code point, "U+00E9").  A word is a sequence of       *)
(* characters, a word list a sequence of words.  A float is kept as an     *)
(* exact fraction [n, d] with d > 0.                                       *)
(***************************************************************************)
EXTENDS Integers, Sequences, FiniteSets, TLC

\* ------------------------------------------------------------- bounds ----
MaxLen == 4      \* longest raw text handed to the tokenizers
MaxWords == 3    \* longest word list handed to a scorer directly
MaxDocs == 2     \* most article files in the article directory

\* ---------------------------------------------------------- characters ----
LowerLetters ==
    {"a", "b", "c", "d", "e", "f", "g", "h", "i", "j", "k", "l", "m",
     "n", "o", "p", "q", "r", "s", "t", "u", "v", "w", "x", "y", "z"}

\* str.lower() on the upper-case letters the inputs use
LowerOf ==
    ("A" :> "a") @@ ("B" :> "b") @@ ("E" :> "e") @@ ("I" :> "i") @@
    ("M" :> "m") @@ ("O" :> "o") @@ ("S" :> "s") @@ ("U" :> "u") @@
    ("W" :> "w") @@ ("Y" :> "y") @@ ("U+00C3" :> "U+00E3")

UpperLetters == DOMAIN LowerOf

Digits == {"0", "1"}

\* str.isspace / the \s of re on one character
isspace(c) == c = " "

\* str.isalpha on one character: U+00E9, U+00E3, U+00C3 are letters,
\* U+00A9 (the copyright sign) is not
isalphaChar(c) == c \in LowerLetters \cup UpperLetters \cup {"U+00E9", "U+00E3"}

\* \w of re on one character
iswordChar(c) == isalphaChar(c) \/ c \in Digits \/ c = "_"

lowerChar(c) == IF c \in DOMAIN LowerOf THEN LowerOf[c] ELSE c

\* str.lower()
lower(s) == [i \in 1..Len(s) |-> lowerChar(s[i])]

\* str.isalpha(): non-empty and every character a letter
isalpha(w) == Len(w) > 0 /\ \A i \in 1..Len(w) : isalphaChar(w[i])

\* the literal 'aeiou' of line 143 and the class [aeiou] of line 166
Vowels == {"a", "e", "i", "o", "u"}

\* ------------------------------------------------------------- fractions --
Rat(n, d) == [n |-> n, d |-> d]
Zero == Rat(0, 1)
One == Rat(1, 1)
RatLeq(x, y) == x.n * y.d <= y.n * x.d
RatEq(x, y) == x.n * y.d = y.n * x.d
RatAdd(x, y) == Rat(x.n * y.d + y.n * x.d, x.d * y.d)
RatMul(x, y) == Rat(x.n * y.n, x.d * y.d)

\* 0.000001 == 1 / EpsInv
EpsInv == 1000000
\* 0.4 == FogNum / FogDen
FogNum == 4
FogDen == 10

\* ------------------------------------------------------ sequence helpers --
\* all sequences over S of length at most n
RECURSIVE SeqsUpTo(_, _)
SeqsUpTo(S, n) ==
    IF n = 0 THEN {<<>>}
    ELSE LET shorter == SeqsUpTo(S, n - 1)
         IN shorter \cup {Append(s, c) : s \in {t \in shorter : Len(t) = n - 1}, c \in S}

\* ' '.join(words)
RECURSIVE join(_)
join(words) ==
    IF words = <<>> THEN <<>>
    ELSE IF Len(words) = 1 THEN Head(words)
    ELSE Head(words) \o <<" ">> \o join(Tail(words))

\* str.split(): the maximal runs of non-whitespace characters
RECURSIVE splitFrom(_, _, _, _)
splitFrom(s, i, cur, acc) ==
    IF i > Len(s) THEN (IF cur = <<>> THEN acc ELSE Append(acc, cur))
    ELSE IF isspace(s[i])
         THEN splitFrom(s, i + 1, <<>>, IF cur = <<>> THEN acc ELSE Append(acc, cur))
         ELSE splitFrom(s, i + 1, Append(cur, s[i]), acc)

split(s) == splitFrom(s, 1, <<>>, <<>>)

\* str.rstrip(): the length of s without its trailing whitespace
RECURSIVE rstripLen(_, _)
rstripLen(s, k) == IF k > 0 /\ isspace(s[k]) THEN rstripLen(s, k - 1) ELSE k

RECURSIVE skipSpaces(_, _)
skipSpaces(s, i) == IF i <= Len(s) /\ isspace(s[i]) THEN skipSpaces(s, i + 1) ELSE i

RECURSIVE tokStart(_, _)
tokStart(s, i) == IF i > 1 /\ ~isspace(s[i - 1]) THEN tokStart(s, i - 1) ELSE i

\* ------------------------------------------------- nltk: sent_tokenize ----
\* Punkt: a period ends a sentence when whitespace and a further token follow
\* it, its token does not end in "..", and the token without the period,
\* lower-cased, is not one of the abbreviation types of the trained
\* parameters (punkt).  The last sentence ends where text.rstrip() ends; an
\* empty last slice is not a sentence.
sentbreak(text, i, punkt) ==
    LET start == tokStart(text, i)
        tok == SubSeq(text, start, i)
    IN /\ text[i] = "."
       /\ i < Len(text)
       /\ isspace(text[i + 1])
       /\ skipSpaces(text, i + 1) <= Len(text)
       /\ ~(Len(tok) >= 2 /\ tok[Len(tok) - 1] = ".")
       /\ lower(SubSeq(tok, 1, Len(tok) - 1)) \notin punkt

RECURSIVE slicesFrom(_, _, _, _, _)
slicesFrom(text, i, last_break, punkt, acc) ==
    IF i > Len(text)
    THEN LET stop == rstripLen(text, Len(text))
         IN IF stop >= last_break THEN Append(acc, SubSeq(text, last_break, stop)) ELSE acc
    ELSE IF sentbreak(text, i, punkt)
         THEN slicesFrom(text, skipSpaces(text, i + 1), skipSpaces(text, i + 1), punkt,
                         Append(acc, SubSeq(text, last_break, i)))
         ELSE slicesFrom(text, i + 1, last_break, punkt, acc)

sent_tokenize(text, punkt) == slicesFrom(text, 1, 1, punkt, <<>>)

\* ------------------------------------------------- nltk: word_tokenize ----
\* Treebank rule (\.\.\.) -> " ... ", left to right, without overlap
RECURSIVE ellipsisSub(_, _)
ellipsisSub(s, i) ==
    IF i > Len(s) THEN <<>>
    ELSE IF i + 2 <= Len(s) /\ s[i] = "." /\ s[i + 1] = "." /\ s[i + 2] = "."
         THEN <<" ", ".", ".", ".", " ">> \o ellipsisSub(s, i + 3)
         ELSE <<s[i]>> \o ellipsisSub(s, i + 1)

\* Treebank rule ([^\.])(\.)\s*$ -> "\1 \2 ": only the period that ends the
\* string is split off, and only when the character before it is no period
finalPeriodSub(s) ==
    LET k == rstripLen(s, Len(s))
    IN IF k >= 2 /\ s[k] = "." /\ s[k - 1] # "."
       THEN SubSeq(s, 1, k - 1) \o <<" ", ".", " ">>
       ELSE s

treebank_tokenize(sent) == split(finalPeriodSub(ellipsisSub(sent, 1)))

RECURSIVE tokenizeAll(_)
tokenizeAll(sents) ==
    IF sents = <<>> THEN <<>>
    ELSE treebank_tokenize(Head(sents)) \o tokenizeAll(Tail(sents))

\* word_tokenize(text) == [tok for sent in sent_tokenize(text)
\*                             for tok in treebank.tokenize(sent)]
word_tokenize(text, punkt) == tokenizeAll(sent_tokenize(text, punkt))

\* ------------------------------------------------------------ the cleaner --
RECURSIVE keepCleaned(_, _)
keepCleaned(words, stop_words) ==
    IF words = <<>> THEN <<>>
    ELSE (IF isalpha(Head(words)) /\ Head(words) \notin stop_words
          THEN <<Head(words)>> ELSE <<>>) \o keepCleaned(Tail(words), stop_words)

\* a cleaner that forgets text.lower()
clean_and_tokenize_nolower(text, stop_words, punkt) ==
    keepCleaned(word_tokenize(text, punkt), stop_words)

clean_and_tokenize(text, stop_words, punkt) ==
    keepCleaned(word_tokenize(lower(text), punkt), stop_words)

\* ---------------------------------------------------- the sentiment scorer --
\* a scorer that counts each distinct word once
countIn_distinct(words, S) == Cardinality({words[i] : i \in 1..Len(words)} \cap S)

\* sum(1 for word in words if word in S)
countIn(words, S) == Cardinality({i \in 1..Len(words) : words[i] \in S})

calculate_sentiment_scores(words, positive_words, negative_words) ==
    LET positive_score == countIn(words, positive_words)
        negative_score == countIn(words, negative_words)
    IN [positive_score |-> positive_score,
        negative_score |-> negative_score,
        polarity_score |->
            Rat((positive_score - negative_score) * EpsInv,
                (positive_score + negative_score) * EpsInv + 1),
        subjectivity_score |->
            Rat((positive_score + negative_score) * EpsInv, Len(words) * EpsInv + 1)]

\* -------------------------------------------------- the readability scorer --
\* len([char for char in word if char in 'aeiou'])
vowelChars(word) == Cardinality({i \in 1..Len(word) : word[i] \in Vowels})

is_complex(word) == vowelChars(word) > 2

\* a scorer without the "if ... > 0 else 0" guards
calculate_readability_scores_unguarded(text, punkt) ==
    LET num_sentences == Len(sent_tokenize(text, punkt))
        words == word_tokenize(text, punkt)
        complex_words == Cardinality({i \in 1..Len(words) : is_complex(words[i])})
    IN [avg_sentence_length |-> Rat(Len(words), num_sentences),
        percentage_complex_words |-> Rat(complex_words, Len(words)),
        fog_index |->
            RatMul(Rat(FogNum, FogDen),
                   RatAdd(Rat(Len(words), num_sentences), Rat(complex_words, Len(words)))),
        complex_wordcount |-> complex_words,
        wordcount |-> Len(words)]

calculate_readability_scores(text, punkt) ==
    LET sentences == sent_tokenize(text, punkt)
        words == word_tokenize(text, punkt)
        num_sentences == Len(sentences)
        num_words == Len(words)
        avg_sentence_length ==
            IF num_sentences > 0 THEN Rat(num_words, num_sentences) ELSE Zero
        complex_words == Cardinality({i \in 1..num_words : is_complex(words[i])})
        percentage_complex_words ==
            IF num_words > 0 THEN Rat(complex_words, num_words) ELSE Zero
    IN [avg_sentence_length |-> avg_sentence_length,
        percentage_complex_words |-> percentage_complex_words,
        fog_index |->
            RatMul(Rat(FogNum, FogDen), RatAdd(avg_sentence_length, percentage_complex_words)),
        complex_wordcount |-> complex_words,
        wordcount |-> num_words]

\* ------------------------------------------------- the lexical-stats scorer --
\* len(re.findall(r'[aeiou]', word)): no re.I, the class is matched as written
syllables(word) == Cardinality({i \in 1..Len(word) : word[i] \in Vowels})

RECURSIVE sumSyllables(_)
sumSyllables(words) ==
    IF words = <<>> THEN 0 ELSE syllables(Head(words)) + sumSyllables(Tail(words))

\* the alternatives of r'\b(I|we|my|ours|us)\b', in the order the regex tries them
Pronouns == << <<"I">>, <<"w", "e">>, <<"m", "y">>, <<"o", "u", "r", "s">>, <<"u", "s">> >>

\* the pattern without its \b anchors
wordBoundary_none(s, i) == TRUE

\* \b at the gap before position i of s (1 <= i <= Len(s) + 1)
wordBoundary(s, i) ==
    LET before == i > 1 /\ iswordChar(s[i - 1])
        after == i <= Len(s) /\ iswordChar(s[i])
    IN before # after

\* alternative alt matches s at position i under re.I, with \b on both sides
altMatches(s, i, alt) ==
    /\ i + Len(alt) - 1 <= Len(s)
    /\ \A k \in 1..Len(alt) : lowerChar(s[i + k - 1]) = lowerChar(alt[k])
    /\ wordBoundary(s, i)
    /\ wordBoundary(s, i + Len(alt))

\* the length of the match re finds at i (first alternative that matches), or 0
matchLen(s, i) ==
    LET hits == {a \in 1..Len(Pronouns) : altMatches(s, i, Pronouns[a])}
    IN IF hits = {} THEN 0
       ELSE Len(Pronouns[CHOOSE a \in hits : \A b \in hits : a <= b])

\* len(re.findall(...)): matches left to right, without overlap
RECURSIVE findallCount(_, _)
findallCount(s, i) ==
    IF i > Len(s) THEN 0
    ELSE IF matchLen(s, i) > 0 THEN 1 + findallCount(s, i + matchLen(s, i))
    ELSE findallCount(s, i + 1)

count_pronouns(words) == findallCount(join(words), 1)

RECURSIVE sumLen(_)
sumLen(words) == IF words = <<>> THEN 0 ELSE Len(Head(words)) + sumLen(Tail(words))

calculate_additional_scores(words) ==
    LET syllable_count == sumSyllables(words)
    IN [syllable_count |-> syllable_count,
        personal_pronouns |-> count_pronouns(words),
        avg_word_length |->
            IF words # <<>> THEN Rat(sumLen(words), Len(words)) ELSE Zero,
        avg_syllables_per_word |->
            IF words # <<>> THEN Rat(syllable_count, Len(words)) ELSE Zero]

\* ------------------------------------------------------ the lexicon loader --
\* code point -> character, for the code points the lexicon files hold
Chr ==
    (32 :> " ") @@ (97 :> "a") @@ (98 :> "b") @@
    (169 :> "U+00A9") @@ (195 :> "U+00C3") @@ (233 :> "U+00E9")

\* bytes.decode('latin'): every byte is the code point of one character
decode_latin(bytes) == [ok |-> TRUE, text |-> [i \in 1..Len(bytes) |-> Chr[bytes[i]]]]

\* bytes.decode('utf-8') on one- and two-byte sequences: a byte below 128 is
\* itself; a lead byte 194..223 needs one continuation byte 128..191; anything
\* else is a UnicodeDecodeError
RECURSIVE utf8From(_, _, _)
utf8From(bytes, i, acc) ==
    IF i > Len(bytes) THEN [ok |-> TRUE, text |-> acc]
    ELSE IF bytes[i] < 128 THEN utf8From(bytes, i + 1, Append(acc, Chr[bytes[i]]))
    ELSE IF /\ bytes[i] \in 194..223
            /\ i + 1 <= Len(bytes)
            /\ bytes[i + 1] \in 128..191
         THEN utf8From(bytes, i + 2,
                       Append(acc, Chr[(bytes[i] - 192) * 64 + (bytes[i + 1] - 128)]))
         ELSE [ok |-> FALSE, text |-> <<>>]

decode_utf8(bytes) == utf8From(bytes, 1, <<>>)

\* set(file.read().split())
wordsOf(text) == {split(text)[i] : i \in 1..Len(split(text))}

Attempt(file, encoding, outcome) ==
    [file |-> file, encoding |-> encoding, outcome |-> outcome]

\* load_stopwords: every file of the directory is opened with encoding='latin'
RECURSIVE readStopFiles(_, _, _, _)
readStopFiles(files, k, stopwords, log) ==
    IF k > Len(files) THEN [err |-> "", stopwords |-> stopwords, log |-> log]
    ELSE readStopFiles(files, k + 1,
                       stopwords \cup wordsOf(decode_latin(files[k]).text),
                       Append(log, Attempt(<<"StopWords", k>>, "latin", "ok")))

load_stopwords(dir) ==
    IF ~dir.exists
    THEN [err |-> "FileNotFoundError", stopwords |-> {},
          log |-> <<Attempt(<<"StopWords">>, "", "FileNotFoundError")>>]
    ELSE readStopFiles(dir.files, 1, {}, <<>>)

\* one try/except block of load_master_dict: utf-8 first, latin when the
\* decode fails; a missing file is not caught
read_master_file(name, file) ==
    IF ~file.exists
    THEN [err |-> "FileNotFoundError", words |-> {},
          log |-> <<Attempt(name, "utf-8", "FileNotFoundError")>>]
    ELSE IF decode_utf8(file.bytes).ok
    THEN [err |-> "", words |-> wordsOf(decode_utf8(file.bytes).text),
          log |-> <<Attempt(name, "utf-8", "ok")>>]
    ELSE [err |-> "", words |-> wordsOf(decode_latin(file.bytes).text),
          log |-> <<Attempt(name, "utf-8", "UnicodeDecodeError"),
                    Attempt(name, "latin", "ok")>>]

load_master_dict(master_dict_dir) ==
    LET p == read_master_file(<<"positive-words.txt">>, master_dict_dir.positive)
        n == read_master_file(<<"negative-words.txt">>, master_dict_dir.negative)
    IN IF p.err # ""
       THEN [err |-> p.err, positive_words |-> {}, negative_words |-> {}, log |-> p.log]
       ELSE IF n.err # ""
       THEN [err |-> n.err, positive_words |-> {}, negative_words |-> {},
             log |-> p.log \o n.log]
       ELSE [err |-> "", positive_words |-> p.words, negative_words |-> n.words,
             log |-> p.log \o n.log]

\* ------------------------------------------------------------ analyze_data --
\* file_name.endswith(".txt")
is_txt(file_name) == file_name.ext = "txt"

\* [file_name for file_name in os.listdir(article_dir) if file_name.endswith(".txt")]
RECURSIVE txt_files(_)
txt_files(listing) ==
    IF listing = <<>> THEN <<>>
    ELSE (IF is_txt(Head(listing).name) THEN <<Head(listing)>> ELSE <<>>)
         \o txt_files(Tail(listing))

\* url_mapping.get(url_id, "")
url_of(url_mapping, url_id) ==
    IF url_id \in DOMAIN url_mapping THEN url_mapping[url_id] ELSE ""

\* str.strip()
strip(s) ==
    LET first == skipSpaces(s, 1)
        last == rstripLen(s, Len(s))
    IN IF first > last THEN <<>> ELSE SubSeq(s, first, last)

\* dict(zip(input_df['URL_ID'], input_df['URL'])) for the input sheet of the run
url_mapping == ("1" :> "http://site/1")

\* the row the loop body of analyze_data builds for one article file
score_row(file, stop_words, positive_words, negative_words, punkt) ==
    LET url_id == file.name.stem
        article_text == strip(file.body)
        cleaned_words == clean_and_tokenize(article_text, stop_words, punkt)
        sentiment == calculate_sentiment_scores(cleaned_words, positive_words, negative_words)
        readability == calculate_readability_scores(article_text, punkt)
        additional == calculate_additional_scores(cleaned_words)
    IN [url_id |-> url_id,
        url |-> url_of(url_mapping, url_id),
        positive_score |-> sentiment.positive_score,
        negative_score |-> sentiment.negative_score,
        polarity_score |-> sentiment.polarity_score,
        subjectivity_score |-> sentiment.subjectivity_score,
        avg_sentence_length |-> readability.avg_sentence_length,
        percentage_complex_words |-> readability.percentage_complex_words,
        fog_index |-> readability.fog_index,
        avg_words_per_sentence |-> readability.avg_sentence_length,
        complex_wordcount |-> readability.complex_wordcount,
        wordcount |-> readability.wordcount,
        avg_syllables_per_word |-> additional.avg_syllables_per_word,
        personal_pronouns |-> additional.personal_pronouns,
        avg_word_length |-> additional.avg_word_length]

\* a loop that puts each new row first
append_row_front(output_data, row) == <<row>> \o output_data

\* output_data.append(row)
append_row(output_data, row) == Append(output_data, row)

\* ------------------------------------------------------------------ inputs --
PunktParams == {{}, {<<"a">>}}

TextChars == {"a", "A", "b", " ", ".", "1"}
Texts == SeqsUpTo(TextChars, MaxLen)
StopVocab == {<<"a">>, <<"b", "a">>}

SentVocab == {<<"g", "o", "o", "d">>, <<"b", "a", "d">>, <<"a">>}
SentDict == {<<"g", "o", "o", "d">>, <<"b", "a", "d">>}

WordVocab ==
    {<<"i">>, <<"I">>, <<"w", "e">>, <<"m", "y">>, <<"O", "u", "r", "s">>,
     <<"u", "s">>, <<"m", "y", "s", "e", "l", "f">>, <<"u", "s", "e", "d">>,
     <<"w", "e", "s", "t">>, <<"u", "s", ".">>}

Calls ==
    {[fn |-> "clean_and_tokenize", text |-> t, stop_words |-> sw] :
        t \in Texts, sw \in SUBSET StopVocab}
    \cup {[fn |-> "calculate_readability_scores", text |-> t] : t \in Texts}
    \cup {[fn |-> "calculate_sentiment_scores", words |-> w,
           positive_words |-> p, negative_words |-> n] :
        w \in SeqsUpTo(SentVocab, MaxWords), p \in SUBSET SentDict, n \in SUBSET SentDict}
    \cup {[fn |-> "calculate_additional_scores", words |-> w] :
        w \in SeqsUpTo(WordVocab, MaxWords)}

\* lexicon files: "a", "a b", a valid two-byte UTF-8 sequence, a lone lead byte
LexFiles == {<<97>>, <<97, 32, 98>>, <<195, 169>>, <<195>>}

StopDirs ==
    {[exists |-> FALSE, files |-> <<>>]}
    \cup {[exists |-> TRUE, files |-> fs] :
            fs \in {<<>>, << <<97>>, <<98>> >>} \cup {<<f>> : f \in LexFiles}}

MasterFiles ==
    {[exists |-> FALSE, bytes |-> <<>>]} \cup {[exists |-> TRUE, bytes |-> f] : f \in LexFiles}

FileNames ==
    {[stem |-> "1", ext |-> "txt"], [stem |-> "2", ext |-> "txt"],
     [stem |-> "notes", ext |-> "md"]}

Bodies ==
    {<<>>,
     <<"a", " ", "b", ".">>,
     <<" ", "A", "a", "a", " ", "a", " ">>,
     <<"b", ".", " ", "a", "1">>}

\* the directory listings os.listdir can return: distinct names, any order; a
\* file that is not .txt is never opened, and is listed with an empty body
Listings ==
    {l \in SeqsUpTo({f \in [name : FileNames, body : Bodies] :
                        f.name.ext = "txt" \/ f.body = <<>>}, MaxDocs) :
        \A i, j \in 1..Len(l) : i # j => l[i].name # l[j].name}

\* ------------------------------------------------------------------- state --
VARIABLES
    pc,              \* where the run (or the call) stands
    punkt,           \* the abbreviation types of the loaded Punkt parameters
    fs,              \* the StopWords and MasterDictionary directories
    g_stop_words,    \* the module-level stop_words of line 36
    stop_words,      \* analyze_data's local stop_words
    positive_words,
    negative_words,
    builds,          \* how many times each lexicon set has been built
    attempts,        \* the open() calls of the loaders, in order
    err,             \* the exception that ended the run, "" when none
    article_dir,     \* what os.listdir(article_dir) returned
    file_list,
    output_data,
    output_df,       \* the table handed to to_excel
    call,            \* the function call under test and its arguments
    ret,             \* its return value
    ret2             \* the return value of the second cleaning

vars ==
    <<pc, punkt, fs, g_stop_words, stop_words, positive_words, negative_words, builds,
      attempts, err, article_dir, file_list, output_data, output_df, call, ret, ret2>>

runVars ==
    <<fs, g_stop_words, stop_words, positive_words, negative_words, builds,
      attempts, err, article_dir, file_list, output_data, output_df>>

callVars == <<call, ret, ret2>>

NoCall == [fn |-> "none"]
NoFs ==
    [stop |-> [exists |-> FALSE, files |-> <<>>],
     master |-> [positive |-> [exists |-> FALSE, bytes |-> <<>>],
                 negative |-> [exists |-> FALSE, bytes |-> <<>>]]]

RunStart ==
    /\ g_stop_words = {}
    /\ stop_words = {}
    /\ positive_words = {}
    /\ negative_words = {}
    /\ builds = [stop |-> 0, positive |-> 0, negative |-> 0]
    /\ attempts = <<>>
    /\ err = ""
    /\ article_dir = <<>>
    /\ file_list = <<>>
    /\ output_data = <<>>
    /\ output_df = <<>>

\* ----------------------------------------------------- the run of the script --
Init ==
    /\ pc = "import"
    /\ punkt \in PunktParams
    /\ fs \in [stop : StopDirs, master : [positive : MasterFiles, negative : MasterFiles]]
    /\ RunStart
    /\ call = NoCall
    /\ ret = <<>>
    /\ ret2 = <<>>

\* line 36: stop_words = load_stopwords(), when the module is imported
Import ==
    /\ pc = "import"
    /\ LET r == load_stopwords(fs.stop)
       IN /\ attempts' = attempts \o r.log
          /\ IF r.err # ""
             THEN /\ err' = r.err
                  /\ pc' = "error"
                  /\ UNCHANGED <<g_stop_words, builds>>
             ELSE /\ g_stop_words' = r.stopwords
                  /\ builds' = [builds EXCEPT !.stop = @ + 1]
                  /\ pc' = "main"
                  /\ UNCHANGED err
    /\ UNCHANGED <<punkt, fs, stop_words, positive_words, negative_words, article_dir,
                   file_list, output_data, output_df, call, ret, ret2>>

\* lines 276-286: main parses the arguments and calls extract_data
Main ==
    /\ pc = "main"
    /\ pc' = "extract_data"
    /\ UNCHANGED <<punkt, runVars, callVars>>

\* lines 191-214: extract_data reads no lexicon and scores nothing; the files it
\* writes are part of what line 244 lists
ExtractData ==
    /\ pc = "extract_data"
    /\ pc' = "analyze_236"
    /\ UNCHANGED <<punkt, runVars, callVars>>

\* line 236: stop_words = load_stopwords(), local to analyze_data
AnalyzeLoadStopwords ==
    /\ pc = "analyze_236"
    /\ LET r == load_stopwords(fs.stop)
       IN /\ attempts' = attempts \o r.log
          /\ IF r.err # ""
             THEN /\ err' = r.err
                  /\ pc' = "error"
                  /\ UNCHANGED <<stop_words, builds>>
             ELSE /\ stop_words' = r.stopwords
                  /\ builds' = [builds EXCEPT !.stop = @ + 1]
                  /\ pc' = "analyze_237"
                  /\ UNCHANGED err
    /\ UNCHANGED <<punkt, fs, g_stop_words, positive_words, negative_words, article_dir,
                   file_list, output_data, output_df, call, ret, ret2>>

\* line 237: positive_words, negative_words = load_master_dict(master_dict_dir)
AnalyzeLoadMasterDict ==
    /\ pc = "analyze_237"
    /\ LET r == load_master_dict(fs.master)
       IN /\ attempts' = attempts \o r.log
          /\ IF r.err # ""
             THEN /\ err' = r.err
                  /\ pc' = "error"
                  /\ UNCHANGED <<positive_words, negative_words, builds>>
             ELSE /\ positive_words' = r.positive_words
                  /\ negative_words' = r.negative_words
                  /\ builds' = [builds EXCEPT !.positive = @ + 1, !.negative = @ + 1]
                  /\ pc' = "analyze_239"
                  /\ UNCHANGED err
    /\ UNCHANGED <<punkt, fs, g_stop_words, stop_words, article_dir, file_list,
                   output_data, output_df, call, ret, ret2>>

\* lines 239-244: the input sheet, output_data = [], file_list
AnalyzeListFiles ==
    /\ pc = "analyze_239"
    /\ \E listing \in Listings :
        /\ article_dir' = listing
        /\ file_list' = txt_files(listing)
    /\ output_data' = <<>>
    /\ pc' = "analyze_246"
    /\ UNCHANGED <<punkt, fs, g_stop_words, stop_words, positive_words, negative_words,
                   builds, attempts, err, output_df, call, ret, ret2>>

\* lines 246-266: one iteration of the loop, on the next file of file_list
AnalyzeFile ==
    /\ pc = "analyze_246"
    /\ Len(output_data) < Len(file_list)
    /\ output_data' =
         append_row(output_data,
                    score_row(file_list[Len(output_data) + 1], stop_words,
                              positive_words, negative_words, punkt))
    /\ UNCHANGED <<pc, punkt, fs, g_stop_words, stop_words, positive_words, negative_words,
                   builds, attempts, err, article_dir, file_list, output_df, call, ret, ret2>>

\* lines 268-274: the loop is over; the table is built and written
AnalyzeWrite ==
    /\ pc = "analyze_246"
    /\ Len(output_data) = Len(file_list)
    /\ output_df' = output_data
    /\ pc' = "done"
    /\ UNCHANGED <<punkt, fs, g_stop_words, stop_words, positive_words, negative_words,
                   builds, attempts, err, article_dir, file_list, output_data, call, ret, ret2>>

Next ==
    \/ Import
    \/ Main
    \/ ExtractData
    \/ AnalyzeLoadStopwords
    \/ AnalyzeLoadMasterDict
    \/ AnalyzeListFiles
    \/ AnalyzeFile
    \/ AnalyzeWrite

Spec == Init /\ [][Next]_vars

\* ------------------------------------------- the functions, called directly --
InitCalls ==
    /\ pc = "call"
    /\ punkt \in PunktParams
    /\ fs = NoFs
    /\ RunStart
    /\ call \in Calls
    /\ ret = <<>>
    /\ ret2 = <<>>

CallCleanAndTokenize ==
    /\ pc = "call"
    /\ call.fn = "clean_and_tokenize"
    /\ ret' = clean_and_tokenize(call.text, call.stop_words, punkt)
    /\ pc' = "returned"
    /\ UNCHANGED <<punkt, runVars, call, ret2>>

\* the cleaned tokens, joined with single spaces, are cleaned again
CleanAgain ==
    /\ pc = "returned"
    /\ call.fn = "clean_and_tokenize"
    /\ ret2' = clean_and_tokenize(join(ret), call.stop_words, punkt)
    /\ pc' = "recleaned"
    /\ UNCHANGED <<punkt, runVars, call, ret>>

CallSentimentScores ==
    /\ pc = "call"
    /\ call.fn = "calculate_sentiment_scores"
    /\ ret' = calculate_sentiment_scores(call.words, call.positive_words, call.negative_words)
    /\ pc' = "returned"
    /\ UNCHANGED <<punkt, runVars, call, ret2>>

CallReadabilityScores ==
    /\ pc = "call"
    /\ call.fn = "calculate_readability_scores"
    /\ ret' = calculate_readability_scores(call.text, punkt)
    /\ pc' = "returned"
    /\ UNCHANGED <<punkt, runVars, call, ret2>>

CallAdditionalScores ==
    /\ pc = "call"
    /\ call.fn = "calculate_additional_scores"
    /\ ret' = calculate_additional_scores(call.words)
    /\ pc' = "returned"
    /\ UNCHANGED <<punkt, runVars, call, ret2>>

NextCalls ==
    \/ CallCleanAndTokenize
    \/ CleanAgain
    \/ CallSentimentScores
    \/ CallReadabilityScores
    \/ CallAdditionalScores

SpecCalls == InitCalls /\ [][NextCalls]_vars

\* ================================================================== claims ==
Returned(fn) == pc = "returned" /\ call.fn = fn

\* a float that is a number (its division was defined) and equals 0
IsZero(x) == x.d # 0 /\ x.n = 0

\* the vowels of a word, upper-case ones included
vowelsAnyCase(word) == Cardinality({i \in 1..Len(word) : lowerChar(word[i]) \in Vowels})

RECURSIVE sumVowelsAnyCase(_)
sumVowelsAnyCase(words) ==
    IF words = <<>> THEN 0 ELSE vowelsAnyCase(Head(words)) + sumVowelsAnyCase(Tail(words))

\* the number of positions of words that hold a member of S
RECURSIVE Occurrences(_, _)
Occurrences(words, S) ==
    IF words = <<>> THEN 0
    ELSE (IF Head(words) \in S THEN 1 ELSE 0) + Occurrences(Tail(words), S)

\* C1: after calculate_sentiment_scores, for any word list and any positive and
\* negative sets (overlapping ones included), 0 <= subjectivity_score <= 1 and
\* -1 <= polarity_score <= 1.
C1_ScoresInRange ==
    Returned("calculate_sentiment_scores") =>
        /\ RatLeq(Zero, ret.subjectivity_score)
        /\ RatLeq(ret.subjectivity_score, One)
        /\ RatLeq(Rat(-1, 1), ret.polarity_score)
        /\ RatLeq(ret.polarity_score, One)

\* C2: on an empty body (no sentence, no raw word, no cleaned word) every scorer
\* returns, and every metric it returns is zero.
C2_EmptyBodyAllZero ==
    /\ (Returned("calculate_readability_scores")
            /\ \A i \in 1..Len(call.text) : isspace(call.text[i])) =>
        /\ IsZero(ret.avg_sentence_length)
        /\ IsZero(ret.percentage_complex_words)
        /\ IsZero(ret.fog_index)
        /\ ret.complex_wordcount = 0
        /\ ret.wordcount = 0
    /\ (Returned("calculate_sentiment_scores") /\ call.words = <<>>) =>
        /\ ret.positive_score = 0
        /\ ret.negative_score = 0
        /\ IsZero(ret.polarity_score)
        /\ IsZero(ret.subjectivity_score)
    /\ (Returned("calculate_additional_scores") /\ call.words = <<>>) =>
        /\ ret.syllable_count = 0
        /\ ret.personal_pronouns = 0
        /\ IsZero(ret.avg_word_length)
        /\ IsZero(ret.avg_syllables_per_word)

C2_Witness ==
    /\ Returned("calculate_readability_scores")
    /\ call.text = <<>>
    /\ ret.wordcount = 0

\* the documents of the article directory, in the order it lists them
Documents == SelectSeq(article_dir, LAMBDA f : f.name.ext = "txt")

\* the record a run over this one document alone puts in its table
SoloRecord(doc) ==
    append_row(<<>>, score_row(doc, stop_words, positive_words, negative_words, punkt))[1]

\* C3: the table of analyze_data holds one record per document, in the order the
\* documents were iterated, and each record is the one the document gets when it
\* is scored alone: while the loop runs the rows so far are those of the first
\* documents, and the written table has a row for every document.
C3_OneRecordPerDocumentInOrder ==
    /\ pc = "analyze_246" =>
        /\ Len(output_data) <= Len(Documents)
        /\ \A i \in 1..Len(output_data) : output_data[i] = SoloRecord(Documents[i])
    /\ pc = "done" =>
        /\ Len(output_df) = Len(Documents)
        /\ \A i \in 1..Len(output_df) : output_df[i] = SoloRecord(Documents[i])

C3_Witness ==
    /\ pc = "done"
    /\ Len(output_df) = 2
    /\ output_df[1].wordcount # output_df[2].wordcount
    /\ output_df[1].positive_score > 0

\* C4: calculate_readability_scores counts a raw word as complex exactly when it
\* holds more than two vowels, upper-case vowels counted like lower-case ones.
C4_ComplexIffMoreThanTwoVowels ==
    Returned("calculate_readability_scores") =>
        LET words == word_tokenize(call.text, punkt)
        IN ret.complex_wordcount =
               Cardinality({i \in 1..Len(words) : vowelsAnyCase(words[i]) > 2})

\* C5: positive_score is the number of positions of the word list whose token is
\* in positive_words, negative_score the number whose token is in
\* negative_words; a token of both sets counts in both.
C5_CountsEveryOccurrence ==
    Returned("calculate_sentiment_scores") =>
        /\ ret.positive_score = Occurrences(call.words, call.positive_words)
        /\ ret.negative_score = Occurrences(call.words, call.negative_words)

C5_Witness ==
    /\ Returned("calculate_sentiment_scores")
    /\ call.positive_words \cap call.negative_words # {}
    /\ ret.positive_score + ret.negative_score > Len(call.words)
    /\ ret.positive_score = 3

\* C6: cleaning the space-joined result of a cleaning again, with the same stop
\* words, gives the same tokens, and every token is alphabetic, lower-case and
\* no stop word.
C6_CleaningIdempotent ==
    pc = "recleaned" =>
        /\ ret2 = ret
        /\ \A i \in 1..Len(ret) :
            /\ isalpha(ret[i])
            /\ \A k \in 1..Len(ret[i]) : ret[i][k] \notin UpperLetters
            /\ ret[i] \notin call.stop_words

C6_Witness ==
    /\ pc = "recleaned"
    /\ Len(ret) = 1
    /\ Len(word_tokenize(call.text, punkt)) = 3
    /\ \E i \in 1..Len(call.text) : call.text[i] \in UpperLetters
    /\ \E w \in call.stop_words : \E i \in 1..Len(call.text) : call.text[i] = w[1]

\* the five pronouns, lower-cased
PronounWords == {lower(Pronouns[a]) : a \in 1..Len(Pronouns)}

\* C7: for a list of alphabetic words, personal_pronouns is the number of words
\* equal, ignoring case, to one of I, we, my, ours, us.
C7_PronounsAreWholeWords ==
    (Returned("calculate_additional_scores")
        /\ \A i \in 1..Len(call.words) : isalpha(call.words[i])) =>
        ret.personal_pronouns =
            Cardinality({i \in 1..Len(call.words) : lower(call.words[i]) \in PronounWords})

C7_Witness ==
    /\ Returned("calculate_additional_scores")
    /\ call.words = << <<"I">>, <<"m", "y", "s", "e", "l", "f">>, <<"O", "u", "r", "s">> >>
    /\ ret.personal_pronouns = 2

\* C8: syllable_count is the number of vowel characters of all the words, counted
\* case-insensitively, and avg_syllables_per_word is that number over the number
\* of words when there is one.
C8_SyllablesCountAllVowels ==
    Returned("calculate_additional_scores") =>
        /\ ret.syllable_count = sumVowelsAnyCase(call.words)
        /\ call.words # <<>> =>
            RatEq(ret.avg_syllables_per_word,
                  Rat(sumVowelsAnyCase(call.words), Len(call.words)))

\* C9: every lexicon file that is read is first opened with the primary encoding
\* (utf-8); the fallback (latin) is used only right after a failed utf-8 decode of
\* the same file, which it always follows; no run ends on a decode error, and a
\* run that ends on a missing file has bound none of the sets being loaded.
C9_PrimaryEncodingFirst ==
    /\ \A i \in 1..Len(attempts) :
        /\ attempts[i].encoding = "latin" =>
            /\ i > 1
            /\ attempts[i - 1].file = attempts[i].file
            /\ attempts[i - 1].encoding = "utf-8"
            /\ attempts[i - 1].outcome = "UnicodeDecodeError"
        /\ attempts[i].outcome = "UnicodeDecodeError" =>
            /\ i < Len(attempts)
            /\ attempts[i + 1].file = attempts[i].file
            /\ attempts[i + 1].encoding = "latin"
    /\ err # "UnicodeDecodeError"
    /\ err = "FileNotFoundError" => positive_words = {} /\ negative_words = {}

\* C10: once the loop over the documents can start, each of the three lexicon
\* sets, the stop-word set included, has been built exactly once.
C10_LexiconBuiltOnce ==
    pc \in {"analyze_246", "done"} =>
        /\ builds.stop = 1
        /\ builds.positive = 1
        /\ builds.negative = 1
====
